---- MODULE Spec2Model ----
(***************************************************************************)
(* payload-audit-log: the cascade tracker (lib/audit-context), the change  *)
(* formatter (lib/change-formatter) and the plugin's collection hooks      *)
(* (index.ts), as state machines.                                          *)
(*                                                                         *)
(*   Spec       the tracker's exported operations, called in any order     *)
(*   SpecHooks  the afterChange / afterDelete hooks of the plugin          *)
(*   SpecFmt    formatChanges applied to bounded before/after snapshots    *)
(***************************************************************************)
EXTENDS Integers, Sequences, FiniteSets, TLC

VARIABLES
    auditRequestId,   \* req.auditRequestId of every request object ("" = not set)
    contexts,         \* AuditContextManager.contexts: request id -> AuditContext
    idCounter,        \* number of request ids generated so far
    decision,         \* the last shouldLogAuditOperation call and its result
    first,            \* history: the mutation each request's first markDirect recorded
    marks,            \* history: markCascading calls since the request's source was recorded
    solo,             \* history: per request, the registry it would have if it ran alone
    fNew,             \* formatChanges: the after snapshot (newDoc)
    fOld,             \* formatChanges: the before snapshot (oldDoc)
    fShape,           \* history: how the pair of snapshots was drawn
    fOptions,         \* formatChanges: the options it was called with
    fResult,          \* formatChanges: what it returned ("pending" before the call)
    minArg,           \* shouldLogChanges: the minChanges argument (undefined = not given)
    logOk,            \* shouldLogChanges: what it returned ("pending" before the call)
    pluginOptions,    \* the options the plugin was built with
    inflight,         \* req.payload.create calls awaited by a hook
    auditLogs,        \* the documents of the audit-logs collection
    hookCalls,        \* number of hook invocations so far
    reqStatus,        \* each request: "active", "failed" (a hook rejected) or "ended"
    hadChange         \* history: the request had an update hook whose doc differs
                      \* meaningfully from previousDoc

trackerVars == <<auditRequestId, contexts, idCounter, decision, first, marks, solo>>
fmtVars == <<fNew, fOld, fShape, fOptions, fResult, minArg, logOk>>
hookVars == <<pluginOptions, inflight, auditLogs, hookCalls, reqStatus, hadChange>>
vars == <<trackerVars, fmtVars, hookVars>>

(***************************************************************************)
(* Bounds and input sets                                                   *)
(***************************************************************************)
MaxStack == 2          \* markCascading calls modelled per context
MaxCascadeCfg == 2     \* largest maxCascadeDepth option tried

Reqs == {"reqA"}

\* (collection, documentId) of the mutations a request can make
Muts == { <<"contracts", "c1">>, <<"contracts", "c2">>, <<"clients", "c1">> }

\* The options object of shouldLogAuditOperation: either key may be absent.
Options ==
    { <<>> }
    \cup { [allowCascading |-> a] : a \in BOOLEAN }
    \cup { [maxCascadeDepth |-> n] : n \in 0..MaxCascadeCfg }
    \cup { [allowCascading |-> a, maxCascadeDepth |-> n] :
             a \in BOOLEAN, n \in 0..MaxCascadeCfg }

NoId == ""
NoDecision == <<>>
NoMut == <<>>

(***************************************************************************)
(* AuditContextManager                                                     *)
(***************************************************************************)
\* `${collection}:${documentId}`
StackTag(collection, documentId) == collection \o ":" \o documentId

generateRequestId(n) == "req_" \o ToString(n)

createContext(ctxs, requestId, sourceCollection, sourceDocumentId) ==
    [id \in DOMAIN ctxs \cup {requestId} |->
        IF id = requestId
        THEN [ sourceCollection  |-> sourceCollection,
               sourceDocumentId  |-> sourceDocumentId,
               isDirectOperation |-> TRUE,
               operationStack    |-> <<>> ]
        ELSE ctxs[id]]

markAsCascading(ctxs, requestId, collection, documentId) ==
    IF requestId \in DOMAIN ctxs
    THEN [ctxs EXCEPT ![requestId] =
            [@ EXCEPT !.isDirectOperation = FALSE,
                      !.operationStack = Append(@, StackTag(collection, documentId))]]
    ELSE ctxs

\* options.allowCascading, undefined read as falsy
OptAllowCascading(options) ==
    IF "allowCascading" \in DOMAIN options THEN options.allowCascading ELSE FALSE

\* options.maxCascadeDepth || 1
OptMaxDepth(options) ==
    IF "maxCascadeDepth" \in DOMAIN options /\ options.maxCascadeDepth # 0
    THEN options.maxCascadeDepth
    ELSE 1

\* variant: the depth test lets one more cascading mutation through
shouldLogOperation_OffByOne(ctxs, requestId, collection, documentId, options) ==
    IF requestId \notin DOMAIN ctxs
    THEN TRUE
    ELSE LET context == ctxs[requestId] IN
         IF context.sourceCollection = collection
              /\ context.sourceDocumentId = documentId
         THEN TRUE
         ELSE IF ~OptAllowCascading(options)
         THEN FALSE
         ELSE IF Len(context.operationStack) > OptMaxDepth(options)
         THEN FALSE
         ELSE TRUE

\* variant: allowCascading is not consulted
shouldLogOperation_IgnoreAllow(ctxs, requestId, collection, documentId, options) ==
    IF requestId \notin DOMAIN ctxs
    THEN TRUE
    ELSE LET context == ctxs[requestId] IN
         IF context.sourceCollection = collection
              /\ context.sourceDocumentId = documentId
         THEN TRUE
         ELSE IF Len(context.operationStack) >= OptMaxDepth(options)
         THEN FALSE
         ELSE TRUE

\* variant: a request without a context is not logged
shouldLogOperation_FailClosed(ctxs, requestId, collection, documentId, options) ==
    IF requestId \notin DOMAIN ctxs
    THEN FALSE
    ELSE LET context == ctxs[requestId] IN
         IF context.sourceCollection = collection
              /\ context.sourceDocumentId = documentId
         THEN TRUE
         ELSE IF ~OptAllowCascading(options)
         THEN FALSE
         ELSE IF Len(context.operationStack) >= OptMaxDepth(options)
         THEN FALSE
         ELSE TRUE

shouldLogOperation(ctxs, requestId, collection, documentId, options) ==
    IF requestId \notin DOMAIN ctxs
    THEN TRUE
    ELSE LET context == ctxs[requestId] IN
         IF context.sourceCollection = collection
              /\ context.sourceDocumentId = documentId
         THEN TRUE
         ELSE IF ~OptAllowCascading(options)
         THEN FALSE
         ELSE IF Len(context.operationStack) >= OptMaxDepth(options)
         THEN FALSE
         ELSE TRUE

\* contexts.delete(requestId); requestContexts is never written by the
\* repository (setRequestContext has no caller), so its delete has no effect.
\* variant: the context stays registered
clearContext_Keep(ctxs, requestId) == ctxs

\* variant: the whole registry is emptied
clearContext_All(ctxs, requestId) == <<>>

clearContext(ctxs, requestId) ==
    [id \in DOMAIN ctxs \ {requestId} |-> ctxs[id]]

(***************************************************************************)
(* The exported helpers, on a request object                               *)
(***************************************************************************)
shouldLogAuditOperation(reqId, ctxs, collection, documentId, options) ==
    IF reqId = NoId
    THEN TRUE
    ELSE shouldLogOperation(ctxs, reqId, collection, documentId, options)

\* variant: marking direct always starts a fresh context
markDirectOperation_Recreate(reqId, ctxs, collection, documentId) ==
    IF reqId = NoId
    THEN ctxs
    ELSE createContext(ctxs, reqId, collection, documentId)

markDirectOperation(reqId, ctxs, collection, documentId) ==
    IF reqId = NoId
    THEN ctxs
    ELSE IF reqId \in DOMAIN ctxs
    THEN [ctxs EXCEPT ![reqId] =
            [@ EXCEPT !.sourceCollection = collection,
                      !.sourceDocumentId = documentId,
                      !.isDirectOperation = TRUE]]
    ELSE createContext(ctxs, reqId, collection, documentId)

markCascadingOperation(reqId, ctxs, collection, documentId) ==
    IF reqId = NoId
    THEN ctxs
    ELSE markAsCascading(ctxs, reqId, collection, documentId)

cleanupAuditContext(reqId, ctxs) ==
    IF reqId # NoId THEN clearContext(ctxs, reqId) ELSE ctxs

\* history: the first mutation observed on the request since the last cleanup
Observe(r, m) == [first EXCEPT ![r] = IF @ = NoMut THEN m ELSE @]

HasContext(r) == auditRequestId[r] # NoId /\ auditRequestId[r] \in DOMAIN contexts

\* the source recorded in the request's context
Source(r) ==
    <<contexts[auditRequestId[r]].sourceCollection,
      contexts[auditRequestId[r]].sourceDocumentId>>

IsSource(r, m) == HasContext(r) /\ Source(r) = m

(***************************************************************************)
(* JavaScript values of a document snapshot                                *)
(*                                                                         *)
(* A string is its sequence of characters; an object is the sequence of    *)
(* its <<key, value>> entries in insertion order (Object.keys order).      *)
(***************************************************************************)
Undef == [k |-> "undefined"]
Null == [k |-> "null"]
Str(chars) == [k |-> "string", s |-> chars]
Num(n) == [k |-> "number", n |-> n]
Bool(b) == [k |-> "boolean", b |-> b]
Arr(items) == [k |-> "array", e |-> items]
Obj(entries) == [k |-> "object", e |-> entries]

\* typeof
TypeOf(v) ==
    CASE v.k = "undefined" -> "undefined"
      [] v.k = "null"      -> "object"
      [] v.k = "array"     -> "object"
      [] v.k = "object"    -> "object"
      [] OTHER             -> v.k

IsArray(v) == v.k = "array"
IsNullish(v) == v.k \in {"undefined", "null"}        \* v == null
IsPrimitive(v) == v.k \in {"undefined", "null", "string", "number", "boolean"}

\* Boolean(v)
Truthy(v) ==
    CASE v.k = "undefined" -> FALSE
      [] v.k = "null"      -> FALSE
      [] v.k = "string"    -> Len(v.s) > 0
      [] v.k = "number"    -> v.n # 0
      [] v.k = "boolean"   -> v.b
      [] OTHER             -> TRUE

\* a === b. Two primitives are compared by type and value. Two objects are
\* compared by reference: the before and the after snapshot are separate object
\* graphs, so no object of one is an object of the other.
StrictEq(a, b) == IsPrimitive(a) /\ IsPrimitive(b) /\ a = b

\* Object.keys(o), as a sequence
Keys(o) == [i \in 1..Len(o.e) |-> o.e[i][1]]
KeySet(o) == { o.e[i][1] : i \in 1..Len(o.e) }

\* 'key' in v, for a non-null object or array (an array has no named keys here)
HasKey(v, key) == v.k = "object" /\ key \in KeySet(v)

\* v[key] and v?.[key]: undefined for a missing key and for every value that
\* is not a keyed map (the callers use ?. wherever v may be null or undefined)
Get(v, key) ==
    IF HasKey(v, key)
    THEN LET i == CHOOSE j \in 1..Len(v.e) : v.e[j][1] = key IN v.e[i][2]
    ELSE Undef

\* Array.from(new Set([...a, ...b])): a, then what b adds, in order
RECURSIVE Dedup(_)
Dedup(seq) ==
    IF seq = <<>> THEN <<>>
    ELSE LET init == Dedup(SubSeq(seq, 1, Len(seq) - 1))
             last == seq[Len(seq)]
         IN IF \E i \in 1..Len(init) : init[i] = last THEN init ELSE Append(init, last)

AllKeys(newValue, oldValue) == Dedup(Keys(newValue) \o Keys(oldValue))

RECURSIVE Flatten(_)
Flatten(seqs) == IF seqs = <<>> THEN <<>> ELSE Head(seqs) \o Flatten(Tail(seqs))

RECURSIVE JoinWith(_, _)
JoinWith(seqs, sep) ==
    IF seqs = <<>> THEN <<>>
    ELSE IF Len(seqs) = 1 THEN seqs[1]
    ELSE seqs[1] \o <<sep>> \o JoinWith(Tail(seqs), sep)

\* JSON.stringify(v), as the sequence of the text's tokens. undefined has no
\* JSON text (the call returns undefined, which === compares equal to itself
\* only); an undefined array element prints as null and an undefined property
\* is left out. The strings of the model hold no character that JSON escapes.
RECURSIVE Stringify(_)
Stringify(v) ==
    CASE v.k = "undefined" -> <<"undefined">>
      [] v.k = "null"      -> <<"null">>
      [] v.k = "string"    -> <<"\"">> \o v.s \o <<"\"">>
      [] v.k = "number"    -> <<ToString(v.n)>>
      [] v.k = "boolean"   -> <<IF v.b THEN "true" ELSE "false">>
      [] v.k = "array"     ->
            <<"[">>
            \o JoinWith([i \in 1..Len(v.e) |->
                            IF v.e[i].k = "undefined" THEN <<"null">>
                            ELSE Stringify(v.e[i])], ",")
            \o <<"]">>
      [] v.k = "object"    ->
            LET kept == SelectSeq(v.e, LAMBDA en : en[2].k # "undefined")
            IN <<"{">>
               \o JoinWith([i \in 1..Len(kept) |->
                               <<"\"", kept[i][1], "\"", ":">> \o Stringify(kept[i][2])], ",")
               \o <<"}">>

(***************************************************************************)
(* lib/change-formatter                                                    *)
(***************************************************************************)
HexChars == {"0","1","2","3","4","5","6","7","8","9",
             "a","b","c","d","e","f","A","B","C","D","E","F"}
WordChars == HexChars \cup
    {"g","h","i","j","k","l","m","n","o","p","q","r","s","t","u","v","w","x","y","z",
     "G","H","I","J","K","L","M","N","O","P","Q","R","S","T","U","V","W","X","Y","Z",
     "_","-"}

UuidLen == 36
ObjectIdLen == 24
GenericIdMinLen == 8

\* isUUID(str): the three regular expressions, on the characters of str
isUUID(chars) ==
    LET uuidRegex ==
            /\ Len(chars) = UuidLen
            /\ \A i \in 1..Len(chars) :
                 IF i \in {9, 14, 19, 24} THEN chars[i] = "-" ELSE chars[i] \in HexChars
        objectIdRegex ==
            /\ Len(chars) = ObjectIdLen
            /\ \A i \in 1..Len(chars) : chars[i] \in HexChars
        genericIdRegex ==
            /\ Len(chars) >= GenericIdMinLen
            /\ \A i \in 1..Len(chars) : chars[i] \in WordChars
    IN uuidRegex \/ objectIdRegex \/ genericIdRegex

IsRelItem(item) ==
    \/ item.k = "string" /\ isUUID(item.s)
    \/ HasKey(item, "id")

isRelationshipField(key, value) ==
    IF value.k = "string" /\ isUUID(value.s) THEN TRUE
    ELSE IF HasKey(value, "id") THEN TRUE
    ELSE IF IsArray(value) /\ Len(value.e) > 0
    THEN \A i \in 1..Len(value.e) : IsRelItem(value.e[i])
    ELSE FALSE

\* variant: values are compared with === only
deepEqual_Shallow(a, b, depth, maxDepth) == StrictEq(a, b)

RECURSIVE deepEqual(_, _, _, _)
deepEqual(a, b, depth, maxDepth) ==
    IF depth > maxDepth THEN Stringify(a) = Stringify(b)
    ELSE IF StrictEq(a, b) THEN TRUE
    ELSE IF IsNullish(a) \/ IsNullish(b) THEN StrictEq(a, b)
    ELSE IF TypeOf(a) # TypeOf(b) THEN FALSE
    ELSE IF TypeOf(a) = "object"
    THEN IF IsArray(a) # IsArray(b) THEN FALSE
         ELSE IF IsArray(a)
         THEN /\ Len(a.e) = Len(b.e)
              /\ \A i \in 1..Len(a.e) : deepEqual(a.e[i], b.e[i], depth + 1, maxDepth)
         ELSE /\ Len(Keys(a)) = Len(Keys(b))
              /\ \A key \in KeySet(a) :
                    /\ key \in KeySet(b)
                    /\ deepEqual(Get(a, key), Get(b, key), depth + 1, maxDepth)
    ELSE FALSE

\* variant: a populated and an unpopulated reference are never taken as the same
SameReference_Never(newVal, oldVal) == FALSE

\* the "populated against unpopulated relationship" test of formatChanges and
\* extractMeaningfulChanges: one side a string, the other an object whose id is it
SameReference(newVal, oldVal) ==
    \/ /\ TypeOf(newVal) = "string"
       /\ TypeOf(oldVal) = "object"
       /\ StrictEq(Get(oldVal, "id"), newVal)
    \/ /\ TypeOf(oldVal) = "string"
       /\ TypeOf(newVal) = "object"
       /\ StrictEq(Get(newVal, "id"), oldVal)

\* typeof v === 'string' ? v : v?.id
IdOf(v) == IF TypeOf(v) = "string" THEN v ELSE Get(v, "id")

\* arr.map(item => typeof item === 'string' ? item : item?.id).filter(Boolean)
IdsOf(arr) == SelectSeq([i \in 1..Len(arr.e) |-> IdOf(arr.e[i])], Truthy)

\* variant: the new value is reported whether or not it differs from the old
extractMeaningfulChanges_Always(newValue, oldValue, depth, maxDepth, excludeFields) ==
    newValue

RECURSIVE extractMeaningfulChanges(_, _, _, _, _)
RECURSIVE ExtractEntries(_, _, _, _, _, _)

\* the loop over allKeys of extractMeaningfulChanges: the entries of `result`
ExtractEntries(keys, newValue, oldValue, depth, maxDepth, excludeFields) ==
    IF keys = <<>> THEN <<>>
    ELSE
      LET key == Head(keys)
          rest == ExtractEntries(Tail(keys), newValue, oldValue, depth, maxDepth,
                                 excludeFields)
          newVal == Get(newValue, key)
          oldVal == Get(oldValue, key)
      IN
      IF key \in excludeFields THEN rest
      ELSE IF SameReference(newVal, oldVal) THEN rest
      ELSE IF isRelationshipField(key, newVal) \/ isRelationshipField(key, oldVal)
      THEN LET newId == IdOf(newVal)
               oldId == IdOf(oldVal)
           IN IF Truthy(newId) /\ Truthy(oldId) /\ ~StrictEq(newId, oldId)
              THEN << <<key, Obj(<< <<"old", oldId>>, <<"new", newId>> >>)>> >> \o rest
              ELSE rest
      ELSE LET change == extractMeaningfulChanges(newVal, oldVal, depth + 1, maxDepth,
                                                  excludeFields)
           IN IF change # Null THEN << <<key, change>> >> \o rest ELSE rest

extractMeaningfulChanges(newValue, oldValue, depth, maxDepth, excludeFields) ==
    IF depth > maxDepth THEN Null
    ELSE IF deepEqual(newValue, oldValue, depth, maxDepth) THEN Null
    ELSE IF IsNullish(newValue) \/ IsNullish(oldValue) THEN newValue
    ELSE IF TypeOf(newValue) # "object" \/ TypeOf(oldValue) # "object" THEN newValue
    ELSE IF IsArray(newValue) /\ IsArray(oldValue)
    THEN IF Len(newValue.e) # Len(oldValue.e) THEN newValue
         ELSE
           LET newIds == IdsOf(newValue)
               oldIds == IdsOf(oldValue)
               hasChangedItems ==
                   \E index \in 1..Len(newValue.e) :
                       LET item == newValue.e[index]
                           oldItem == oldValue.e[index]
                       IN IF TypeOf(item) \in {"string", "number", "boolean"}
                          THEN ~StrictEq(item, oldItem)
                          ELSE ~deepEqual(item, oldItem, depth + 1, maxDepth)
           IN IF /\ Len(newIds) = Len(oldIds)
                 /\ \A i \in 1..Len(newIds) :
                       \E j \in 1..Len(oldIds) : StrictEq(oldIds[j], newIds[i])
              THEN Null
              ELSE IF hasChangedItems THEN newValue ELSE Null
    ELSE IF IsArray(newValue) \/ IsArray(oldValue) THEN newValue
    ELSE
      LET result == ExtractEntries(AllKeys(newValue, oldValue), newValue, oldValue,
                                   depth, maxDepth, excludeFields)
      IN IF result # <<>> THEN Obj(result) ELSE Null

\* defaultChangeFormatterOptions
DefaultExcludeFields ==
    { "id", "createdAt", "updatedAt", "createdBy", "updatedBy",
      "sessions", "password", "token", "secret", "hash", "salt",
      "lockUntil", "loginAttempts", "resetPasswordToken", "resetPasswordExpiration",
      "lastLogin", "lastLoginAt", "emailVerified", "emailVerificationToken",
      "emailVerificationExpiration", "forgotPasswordToken", "forgotPasswordExpiration" }
DefaultMaxDepth == 2
FallbackMaxDepth == 5

\* opts = { ...defaultChangeFormatterOptions, ...options }
OptExcludeFields(options) ==
    IF "excludeFields" \in DOMAIN options THEN options.excludeFields
    ELSE DefaultExcludeFields
OptMeaningfulChangesOnly(options) ==
    IF "meaningfulChangesOnly" \in DOMAIN options THEN options.meaningfulChangesOnly
    ELSE TRUE
\* opts.maxDepth || 5
OptFormatterDepth(options) ==
    LET maxDepth == IF "maxDepth" \in DOMAIN options THEN options.maxDepth
                    ELSE DefaultMaxDepth
    IN IF maxDepth # 0 THEN maxDepth ELSE FallbackMaxDepth

\* variant: the new value is written on both sides
ChangeRecord_Swapped(oldValue, new) == Obj(<< <<"old", new>>, <<"new", new>> >>)

\* changes[key] = { old: oldValue, new: ... }
ChangeRecord(oldValue, new) == Obj(<< <<"old", oldValue>>, <<"new", new>> >>)

\* the loop over allKeys of formatChanges: the entries of `changes`
RECURSIVE FormatEntries(_, _, _, _)
FormatEntries(keys, newDoc, oldDoc, options) ==
    IF keys = <<>> THEN <<>>
    ELSE
      LET key == Head(keys)
          rest == FormatEntries(Tail(keys), newDoc, oldDoc, options)
          newValue == Get(newDoc, key)
          oldValue == Get(oldDoc, key)
          Change(new) == << <<key, ChangeRecord(oldValue, new)>> >>
      IN
      IF key \in OptExcludeFields(options) THEN rest
      ELSE IF SameReference(newValue, oldValue) THEN rest
      ELSE IF OptMeaningfulChangesOnly(options)
      THEN LET meaningfulChange ==
                   extractMeaningfulChanges(newValue, oldValue, 0,
                                            OptFormatterDepth(options),
                                            OptExcludeFields(options))
           IN IF meaningfulChange # Null THEN Change(meaningfulChange) \o rest ELSE rest
      ELSE IF ~deepEqual(newValue, oldValue, 0, OptFormatterDepth(options))
      THEN Change(newValue) \o rest
      ELSE rest

\* variant: an absent before snapshot is diffed as the empty document
formatChanges_DiffAgainstEmpty(newDoc, oldDoc, options) ==
    LET old == IF ~Truthy(oldDoc) THEN Obj(<<>>) ELSE oldDoc
        changes == FormatEntries(AllKeys(newDoc, old), newDoc, old, options)
    IN IF changes # <<>> THEN Obj(changes) ELSE Null

\* formatChanges(newDoc, oldDoc, options); newDoc is a keyed map
formatChanges(newDoc, oldDoc, options) ==
    IF ~Truthy(oldDoc) THEN newDoc
    ELSE LET changes == FormatEntries(AllKeys(newDoc, oldDoc), newDoc, oldDoc, options)
         IN IF changes # <<>> THEN Obj(changes) ELSE Null

DefaultMinChanges == 1

\* minChanges: number = 1
MinChanges(minChanges) ==
    IF minChanges = Undef THEN DefaultMinChanges ELSE minChanges.n

\* variant: every change-set is worth logging
shouldLogChanges_Always(changes, minChanges) == TRUE

\* variant: the count must exceed minChanges
shouldLogChanges_Exceeds(changes, minChanges) ==
    IF ~Truthy(changes) THEN FALSE
    ELSE Len(Keys(changes)) > MinChanges(minChanges)

\* shouldLogChanges(changes, minChanges); minChanges is a number or not given
shouldLogChanges(changes, minChanges) ==
    IF ~Truthy(changes) THEN FALSE
    ELSE Len(Keys(changes)) >= MinChanges(minChanges)

(***************************************************************************)
(* Spec: the tracker's operations, in any order                            *)
(***************************************************************************)
Pending == [k |-> "pending"]

TrackerInit ==
    /\ auditRequestId = [r \in Reqs |-> NoId]
    /\ contexts = <<>>
    /\ idCounter = 0
    /\ decision = NoDecision
    /\ first = [r \in Reqs |-> NoMut]
    /\ marks = [r \in Reqs |-> 0]
    /\ solo = [r \in Reqs |-> <<>>]

\* no formatChanges call is modelled
FmtIdle ==
    /\ fNew = Null
    /\ fOld = Null
    /\ fShape = <<>>
    /\ fOptions = <<>>
    /\ fResult = Pending
    /\ minArg = Undef
    /\ logOk = Pending

\* no hook is installed
HooksIdle ==
    /\ pluginOptions = <<>>
    /\ inflight = {}
    /\ auditLogs = {}
    /\ hookCalls = 0
    /\ reqStatus = <<>>
    /\ hadChange = <<>>

Init == TrackerInit /\ FmtIdle /\ HooksIdle

\* initializeAuditContext(req), on a request that carries no id yet
Initialize(r) ==
    /\ auditRequestId[r] = NoId
    /\ idCounter' = idCounter + 1
    /\ auditRequestId' = [auditRequestId EXCEPT ![r] = generateRequestId(idCounter + 1)]
    /\ UNCHANGED <<contexts, decision, first, marks, solo>>
    /\ UNCHANGED <<fmtVars, hookVars>>

ShouldLog(r, m, options) ==
    /\ decision' = [ req |-> r, collection |-> m[1], documentId |-> m[2],
                     options |-> options,
                     hadContext |-> HasContext(r),
                     isSource |-> IsSource(r, m),
                     ordinal |-> marks[r] + 1,
                     result |-> shouldLogAuditOperation(auditRequestId[r], contexts,
                                                        m[1], m[2], options),
                     alone |-> shouldLogAuditOperation(auditRequestId[r], solo[r],
                                                       m[1], m[2], options) ]
    /\ UNCHANGED <<auditRequestId, contexts, idCounter, first, marks, solo>>
    /\ UNCHANGED <<fmtVars, hookVars>>

MarkDirect(r, m) ==
    /\ contexts' = markDirectOperation(auditRequestId[r], contexts, m[1], m[2])
    /\ solo' = [solo EXCEPT ![r] = markDirectOperation(auditRequestId[r], @, m[1], m[2])]
    /\ first' = IF auditRequestId[r] # NoId THEN Observe(r, m) ELSE first
    /\ UNCHANGED <<auditRequestId, idCounter, decision, marks>>
    /\ UNCHANGED <<fmtVars, hookVars>>

MarkCascading(r, m) ==
    /\ marks[r] < MaxStack
    /\ contexts' = markCascadingOperation(auditRequestId[r], contexts, m[1], m[2])
    /\ solo' = [solo EXCEPT ![r] = markCascadingOperation(auditRequestId[r], @, m[1], m[2])]
    /\ marks' = [marks EXCEPT ![r] = IF HasContext(r) THEN @ + 1 ELSE @]
    /\ UNCHANGED <<auditRequestId, idCounter, decision, first>>
    /\ UNCHANGED <<fmtVars, hookVars>>

Cleanup(r) ==
    /\ contexts' = cleanupAuditContext(auditRequestId[r], contexts)
    /\ solo' = [solo EXCEPT ![r] = cleanupAuditContext(auditRequestId[r], @)]
    /\ first' = [first EXCEPT ![r] = NoMut]
    /\ marks' = [marks EXCEPT ![r] = 0]
    /\ UNCHANGED <<auditRequestId, idCounter, decision>>
    /\ UNCHANGED <<fmtVars, hookVars>>

Next ==
    \/ \E r \in Reqs : Initialize(r)
    \/ \E r \in Reqs, m \in Muts, o \in Options : ShouldLog(r, m, o)
    \/ \E r \in Reqs, m \in Muts : MarkDirect(r, m)
    \/ \E r \in Reqs, m \in Muts : MarkCascading(r, m)
    \/ \E r \in Reqs : Cleanup(r)

Spec == Init /\ [][Next]_vars

(***************************************************************************)
(* Properties of the tracker (Spec)                                        *)
(***************************************************************************)
\* what shouldLogAuditOperation returns for request r in the current state
WouldLog(r, m, options) ==
    shouldLogAuditOperation(auditRequestId[r], contexts, m[1], m[2], options)

\* C1: whatever was called on the request since, shouldLog is true for the first
\* mutation the request recorded, under every option
C1_SourcePrecedence ==
    \A r \in Reqs :
        first[r] # NoMut => \A o \in Options : WouldLog(r, first[r], o)

\* C2: with the source recorded once and k cascading mutations marked since,
\* under allowCascading and maxCascadeDepth = N >= 1 the decision for the next
\* mutation (the (k+1)-th cascading one) is true when k+1 = N and false when
\* k+1 = N+1; in general it is true exactly when k+1 <= N
C2_DepthBoundary ==
    /\ \A r \in Reqs :
          (HasContext(r) /\ first[r] # NoMut /\ Source(r) = first[r]) =>
              \A m \in Muts \ {first[r]}, n \in 1..MaxCascadeCfg :
                  LET res == WouldLog(r, m, [allowCascading |-> TRUE,
                                             maxCascadeDepth |-> n])
                  IN /\ marks[r] + 1 = n => res
                     /\ marks[r] + 1 = n + 1 => ~res
    /\ ( /\ decision # NoDecision
         /\ decision.hadContext /\ ~decision.isSource
         /\ "maxCascadeDepth" \in DOMAIN decision.options
         /\ decision.options.maxCascadeDepth >= 1
         /\ OptAllowCascading(decision.options) )
       => decision.result = (decision.ordinal <= decision.options.maxCascadeDepth)

C2_Witness ==
    /\ decision # NoDecision
    /\ decision.options = [allowCascading |-> TRUE, maxCascadeDepth |-> 2]
    /\ decision.hadContext /\ ~decision.isSource
    /\ decision.ordinal = 3
    /\ ~decision.result
    /\ HasContext(decision.req)
    /\ Source(decision.req) = first[decision.req]
    /\ Len(contexts[auditRequestId[decision.req]].operationStack) = 2

\* C4: without a context for the request (no id on the request, no context
\* created yet, or the context cleaned up) shouldLog is true for every
\* mutation and every option
C4_FailOpen ==
    /\ \A r \in Reqs :
          ~HasContext(r) => \A m \in Muts, o \in Options : WouldLog(r, m, o)
    /\ (decision # NoDecision /\ ~decision.hadContext) => decision.result

C4_Witness ==
    /\ decision # NoDecision
    /\ ~decision.hadContext
    /\ decision.result
    /\ decision.options = [allowCascading |-> FALSE]
    /\ auditRequestId[decision.req] # NoId
    /\ ~HasContext(decision.req)
    /\ idCounter = 1

(***************************************************************************)
(* SpecFmt: formatChanges on bounded snapshots                             *)
(*                                                                         *)
(* A pair of snapshots is either two flat documents, or one leaf value     *)
(* changed into another under the same chain of keys (the update of one    *)
(* nested value), or a creation (no before snapshot).                      *)
(***************************************************************************)
MaxNest == 3           \* longest chain of keys above a changed value
MaxDepthCfg == 2       \* largest maxDepth option tried

John == Str(<<"J", "o", "h", "n">>)
Jane == Str(<<"J", "a", "n", "e">>)
User1 == Str(<<"u", "s", "e", "r", "-", "0", "0", "1">>)
User2 == Str(<<"u", "s", "e", "r", "-", "0", "0", "2">>)

EmptyStr == Str(<<>>)

Scalars == { Undef, Null, EmptyStr, John, Jane, User1, User2, Num(0), Num(1) }

\* a populated relationship: { id, name }
Populated(id, name) == Obj(<< <<"id", id>>, <<"name", name>> >>)

FlatObjs ==
    { Populated(User1, John), Populated(User1, Jane), Populated(User2, John) }
    \cup { Obj(<< <<key, s>> >>) : key \in {"name", "hash"}, s \in {John, Jane} }
    \cup { Obj(<< <<"name", s>>, <<"hash", t>> >>) : s \in {John, Jane}, t \in {John, Jane} }
    \cup { Obj(<< <<"hash", John>>, <<"name", John>> >>), Obj(<<>>) }

ArrayItems == { Num(0), Num(1), User1, User2 }

Arrays ==
    { Arr(<<>>) }
    \cup { Arr(<<x>>) : x \in ArrayItems }
    \cup { Arr(<<x, y>>) : x \in ArrayItems, y \in ArrayItems }
    \cup { Arr(<<Populated(User1, John)>>), Arr(<<Populated(User1, Jane)>>),
           Arr(<<Populated(User2, John)>>) }

Leaves == Scalars \cup FlatObjs \cup Arrays

\* the keys above the changed value: "profile" all the way, the last one
\* possibly "hash"
Chains ==
    { [i \in 1..n |-> IF i = n THEN last ELSE "profile"] :
        n \in 1..MaxNest, last \in {"profile", "hash"} }

RECURSIVE Wrap(_, _)
Wrap(chain, leaf) ==
    IF chain = <<>> THEN leaf
    ELSE Obj(<< <<Head(chain), Wrap(Tail(chain), leaf)>> >>)

FmtOptions ==
    { <<>> }
    \cup { [excludeFields |-> ex, meaningfulChangesOnly |-> mco, maxDepth |-> d] :
             ex \in {{}, {"hash"}}, mco \in BOOLEAN, d \in 0..MaxDepthCfg }

FmtInit ==
    /\ \/ \E c \in Chains, a \in Leaves, b \in Leaves :
            /\ fShape = [kind |-> "nested", chain |-> c, new |-> a, old |-> b]
            /\ fNew = Wrap(c, a)
            /\ fOld = Wrap(c, b)
       \/ \E a \in FlatObjs, b \in FlatObjs :
            /\ fShape = [kind |-> "flat"]
            /\ fNew = a
            /\ fOld = b
       \/ \E a \in FlatObjs, b \in {Undef, Null} :
            /\ fShape = [kind |-> "create"]
            /\ fNew = a
            /\ fOld = b
    /\ fOptions = <<>>
    /\ fResult = Pending
    /\ minArg = Undef
    /\ logOk = Pending
    /\ TrackerInit
    /\ HooksIdle

\* changes = formatChanges(doc, previousDoc, options)
Format(options) ==
    /\ fResult = Pending
    /\ fOptions' = options
    /\ fResult' = formatChanges(fNew, fOld, options)
    /\ UNCHANGED <<fNew, fOld, fShape, minArg, logOk, trackerVars, hookVars>>

FmtNext == \E o \in FmtOptions : Format(o)

SpecFmt == FmtInit /\ [][FmtNext]_vars

Done == fResult # Pending

(***************************************************************************)
(* SpecHooks: the afterChange / afterDelete hooks of the audited           *)
(* collections, called by requests that mutate documents                   *)
(***************************************************************************)
MaxHooks == 3          \* hook invocations modelled

HookReqs == {"reqA"}

\* String(v) of a string or a number
RECURSIVE Concat(_)
Concat(chars) == IF chars = <<>> THEN "" ELSE Head(chars) \o Concat(Tail(chars))
JsString(v) == IF v.k = "number" THEN ToString(v.n) ELSE Concat(v.s)

\* a ?? b
Coalesce(a, b) == IF IsNullish(a) THEN b ELSE a

DocC1 == Str(<<"c", "1">>)
DocC2 == Str(<<"c", "2">>)
Doc(id, name) == Obj(<< <<"id", id>>, <<"name", name>> >>)

\* the documents the requests mutate: the collection's slug and doc.id
HookTargets == { <<"contracts", DocC1>>, <<"contracts", DocC2>>, <<"clients", DocC1>> }

\* what Payload hands to afterChange: the collection's slug, the operation,
\* doc and previousDoc
ChangeCalls ==
    { [slug |-> t[1], operation |-> "create", doc |-> Doc(t[2], John),
       previousDoc |-> Undef] : t \in HookTargets }
    \cup
    { [slug |-> t[1], operation |-> "update", doc |-> Doc(t[2], n),
       previousDoc |-> Doc(t[2], John)] : t \in HookTargets, n \in {John, Jane} }

\* what Payload hands to afterDelete
DeleteCalls == { [slug |-> t[1], doc |-> Doc(t[2], John)] : t \in HookTargets }

\* pluginOptions = { ...defaultOptions, ...options }: both cascade keys are set
PluginOptions ==
    { [allowCascading |-> a, maxCascadeDepth |-> n] :
        a \in BOOLEAN, n \in 0..MaxCascadeCfg }

\* { allowCascading: pluginOptions.allowCascading,
\*   maxCascadeDepth: pluginOptions.maxCascadeDepth }
CascadeOptions ==
    [allowCascading |-> pluginOptions.allowCascading,
     maxCascadeDepth |-> pluginOptions.maxCascadeDepth]

\* formatterOptions of afterChange, for a plugin built without changeFormatter
\* and columnsToIgnore options
HookFormatterOptions ==
    [excludeFields |-> DefaultExcludeFields \cup DefaultExcludeFields,
     meaningfulChangesOnly |-> TRUE,
     maxDepth |-> DefaultMaxDepth]

\* the data of req.payload.create, with the request that issued it
AuditRecord(r, slug, action, documentId, changes) ==
    [req |-> r, collection |-> slug, action |-> action,
     documentId |-> documentId, changes |-> changes]

HooksInit ==
    /\ auditRequestId = [r \in HookReqs |-> NoId]
    /\ contexts = <<>>
    /\ idCounter = 0
    /\ decision = NoDecision
    /\ first = [r \in HookReqs |-> NoMut]
    /\ marks = [r \in HookReqs |-> 0]
    /\ solo = [r \in HookReqs |-> <<>>]
    /\ FmtIdle
    /\ pluginOptions \in PluginOptions
    /\ inflight = {}
    /\ auditLogs = {}
    /\ hookCalls = 0
    /\ reqStatus = [r \in HookReqs |-> "active"]
    /\ hadChange = [r \in HookReqs |-> FALSE]

\* the part common to both hooks, up to the marking: the id the request carries
\* afterwards, the decision, and the registry afterwards
HookId(r) ==
    IF auditRequestId[r] = NoId THEN generateRequestId(idCounter + 1)
    ELSE auditRequestId[r]

HookShouldLog(r, slug, documentId) ==
    shouldLogAuditOperation(HookId(r), contexts, slug, documentId, CascadeOptions)

\* variant: the marking has not happened yet when the hook gives up control
HookMark_Unmarked(r, slug, documentId) == contexts

HookMark(r, slug, documentId) ==
    IF HookShouldLog(r, slug, documentId)
    THEN markDirectOperation(HookId(r), contexts, slug, documentId)
    ELSE markCascadingOperation(HookId(r), contexts, slug, documentId)

HookEntry(r, slug, documentId) ==
    /\ hookCalls < MaxHooks
    /\ reqStatus[r] = "active"
    /\ hookCalls' = hookCalls + 1
    /\ idCounter' = IF auditRequestId[r] = NoId THEN idCounter + 1 ELSE idCounter
    /\ auditRequestId' = [auditRequestId EXCEPT ![r] = HookId(r)]
    /\ contexts' = HookMark(r, slug, documentId)
    /\ first' = Observe(r, <<slug, documentId>>)
    /\ marks' = [marks EXCEPT ![r] =
                    IF ~HookShouldLog(r, slug, documentId) /\ HasContext(r)
                    THEN @ + 1 ELSE @]
    /\ UNCHANGED <<decision, solo, fmtVars, pluginOptions, auditLogs, reqStatus>>

\* afterChange, up to its await
afterChange(r, call) ==
    LET action == IF call.operation = "create" THEN "create" ELSE "update"
        documentId ==
            JsString(Coalesce(Get(call.doc, "id"),
                     Coalesce(IF IsNullish(call.previousDoc) THEN Undef
                              ELSE Get(call.previousDoc, "id"),
                              EmptyStr)))
        isUpdate == action = "update" /\ Truthy(call.previousDoc)
        changes == IF isUpdate
                   THEN formatChanges(call.doc, call.previousDoc, HookFormatterOptions)
                   ELSE Null
        skip == isUpdate /\
                  ( \/ ~shouldLogChanges(changes, Undef)
                    \/ (Truthy(changes) /\ TypeOf(changes) = "object"
                          /\ Len(Keys(changes)) = 0) )
    IN /\ HookEntry(r, call.slug, documentId)
       /\ inflight' =
            IF HookShouldLog(r, call.slug, documentId) /\ ~skip
            THEN inflight \cup
                   { AuditRecord(r, call.slug, action, documentId,
                                 IF action = "update" THEN changes ELSE call.doc) }
            ELSE inflight
       /\ hadChange' = [hadChange EXCEPT ![r] = @ \/ (isUpdate /\ ~skip)]

\* afterDelete, up to its await
afterDelete(r, call) ==
    LET documentId == JsString(Coalesce(Get(call.doc, "id"), EmptyStr))
    IN /\ HookEntry(r, call.slug, documentId)
       /\ inflight' =
            IF HookShouldLog(r, call.slug, documentId)
            THEN inflight \cup
                   { AuditRecord(r, call.slug, "delete", documentId, call.doc) }
            ELSE inflight
       /\ UNCHANGED hadChange

\* req.payload.create({ collection: 'audit-logs', data }) completes
CreateDone(rec) ==
    /\ rec \in inflight
    /\ inflight' = inflight \ {rec}
    /\ auditLogs' = auditLogs \cup {rec}
    /\ UNCHANGED <<trackerVars, fmtVars, pluginOptions, hookCalls, reqStatus, hadChange>>

\* req.payload.create rejects: nothing catches it, the hook's promise rejects
\* and the operation that called the hook fails
CreateFail(rec) ==
    /\ rec \in inflight
    /\ inflight' = inflight \ {rec}
    /\ reqStatus' = [reqStatus EXCEPT ![rec.req] = "failed"]
    /\ UNCHANGED <<trackerVars, fmtVars, pluginOptions, auditLogs, hookCalls, hadChange>>

\* the host finishes the request, all its hooks having returned
EndRequest(r) ==
    /\ reqStatus[r] = "active"
    /\ \A rec \in inflight : rec.req # r
    /\ reqStatus' = [reqStatus EXCEPT ![r] = "ended"]
    /\ UNCHANGED <<trackerVars, fmtVars, pluginOptions, inflight, auditLogs, hookCalls, hadChange>>

HooksNext ==
    \/ \E r \in HookReqs, call \in ChangeCalls : afterChange(r, call)
    \/ \E r \in HookReqs, call \in DeleteCalls : afterDelete(r, call)
    \/ \E rec \in inflight : CreateDone(rec)
    \/ \E rec \in inflight : CreateFail(rec)
    \/ \E r \in HookReqs : EndRequest(r)

SpecHooks == HooksInit /\ [][HooksNext]_vars

(***************************************************************************)
(* SpecIso: the tracker's operations issued by two requests, interleaved   *)
(***************************************************************************)
IsoReqs == {"reqA", "reqB"}

IsoMuts == { <<"contracts", "c1">>, <<"clients", "c1">> }

\* the mutation both requests record as cascading
IsoCascades == { <<"clients", "c1">> }

IsoOptions ==
    { [allowCascading |-> FALSE], [allowCascading |-> TRUE, maxCascadeDepth |-> 1] }

IsoInit ==
    /\ auditRequestId = [r \in IsoReqs |-> NoId]
    /\ contexts = <<>>
    /\ idCounter = 0
    /\ decision = NoDecision
    /\ first = [r \in IsoReqs |-> NoMut]
    /\ marks = [r \in IsoReqs |-> 0]
    /\ solo = [r \in IsoReqs |-> <<>>]
    /\ FmtIdle
    /\ HooksIdle

IsoNext ==
    \/ \E r \in IsoReqs : Initialize(r)
    \/ \E r \in IsoReqs, m \in IsoMuts, o \in IsoOptions : ShouldLog(r, m, o)
    \/ \E r \in IsoReqs, m \in IsoMuts : MarkDirect(r, m)
    \/ \E r \in IsoReqs, m \in IsoCascades : MarkCascading(r, m)
    \/ \E r \in IsoReqs : Cleanup(r)

SpecIso == IsoInit /\ [][IsoNext]_vars

(***************************************************************************)
(* SpecFixed: the tracker's operations of one request, every decision      *)
(* asked under the same option object (a caller configured once)           *)
(***************************************************************************)
FixedOptions ==
    { [allowCascading |-> FALSE, maxCascadeDepth |-> 0] }
    \cup { [allowCascading |-> TRUE, maxCascadeDepth |-> n] : n \in 1..MaxCascadeCfg }

FixedInit ==
    /\ TrackerInit
    /\ FmtIdle
    /\ pluginOptions \in FixedOptions
    /\ inflight = {}
    /\ auditLogs = {}
    /\ hookCalls = 0
    /\ reqStatus = <<>>
    /\ hadChange = <<>>

FixedNext ==
    \/ \E r \in Reqs : Initialize(r)
    \/ \E r \in Reqs, m \in Muts : ShouldLog(r, m, pluginOptions)
    \/ \E r \in Reqs, m \in Muts : MarkDirect(r, m)
    \/ \E r \in Reqs, m \in Muts : MarkCascading(r, m)
    \/ \E r \in Reqs : Cleanup(r)

SpecFixed == FixedInit /\ [][FixedNext]_vars

(***************************************************************************)
(* SpecLog: formatChanges on a flat document, then shouldLogChanges on     *)
(* the change-set it returned                                              *)
(***************************************************************************)
MaxMinChanges == 2     \* largest minChanges argument tried

MinArgs == {Undef} \cup { Num(n) : n \in 0..MaxMinChanges }

LogInit ==
    /\ \/ \E a \in FlatObjs, b \in FlatObjs :
            /\ fShape = [kind |-> "flat"]
            /\ fNew = a
            /\ fOld = b
       \/ \E a \in FlatObjs, b \in {Undef, Null} :
            /\ fShape = [kind |-> "create"]
            /\ fNew = a
            /\ fOld = b
    /\ fOptions = <<>>
    /\ fResult = Pending
    /\ minArg = Undef
    /\ logOk = Pending
    /\ TrackerInit
    /\ HooksIdle

\* shouldLogChanges(changes) / shouldLogChanges(changes, minChanges)
Validate(min) ==
    /\ fResult # Pending
    /\ logOk = Pending
    /\ minArg' = min
    /\ logOk' = Bool(shouldLogChanges(fResult, min))
    /\ UNCHANGED <<fNew, fOld, fShape, fOptions, fResult, trackerVars, hookVars>>

LogNext ==
    \/ \E o \in FmtOptions : Format(o)
    \/ \E min \in MinArgs : Validate(min)

SpecLog == LogInit /\ [][LogNext]_vars

\* the registry after cleanupAuditContext(req) of request r
Cleaned(r) == cleanupAuditContext(auditRequestId[r], contexts)

\* C17: from any state cleanup leaves the registry without a context for the
\* request, so that a later markDirect starts from a fresh context with an
\* empty operationStack; a second cleanup, and a cleanup of a request without
\* a context, change nothing
C17_CleanupResets ==
    /\ [](\A r \in Reqs :
            /\ auditRequestId[r] \notin DOMAIN Cleaned(r)
            /\ cleanupAuditContext(auditRequestId[r], Cleaned(r)) = Cleaned(r)
            /\ ~HasContext(r) => Cleaned(r) = contexts
            /\ auditRequestId[r] # NoId =>
                  \A m \in Muts :
                      markDirectOperation(auditRequestId[r], Cleaned(r), m[1], m[2])
                        = createContext(Cleaned(r), auditRequestId[r], m[1], m[2]))
    /\ [][\A r \in Reqs :
            Cleanup(r) =>
                /\ auditRequestId[r] \notin DOMAIN contexts'
                /\ cleanupAuditContext(auditRequestId[r], contexts') = contexts']_vars

\* a request that had two cascading mutations recorded holds a context with
\* an empty operationStack again: it was cleaned up and marked direct anew
C17_Witness ==
    /\ decision # NoDecision
    /\ decision.hadContext /\ decision.ordinal = 3
    /\ HasContext("reqA")
    /\ contexts[auditRequestId["reqA"]].operationStack = <<>>
    /\ contexts[auditRequestId["reqA"]].isDirectOperation

\* C19: for a mutation that is not the recorded source, under allowCascading
\* and an explicitly given maxCascadeDepth = n >= 0, the decision is false
\* exactly when operationStack.length >= n (so n = 0 rejects every cascading
\* mutation)
C19_ExplicitDepth ==
    /\ \A r \in Reqs :
          HasContext(r) =>
              \A m \in Muts \ {Source(r)}, n \in 0..MaxCascadeCfg :
                  WouldLog(r, m, [allowCascading |-> TRUE, maxCascadeDepth |-> n])
                      = ~(Len(contexts[auditRequestId[r]].operationStack) >= n)
    /\ ( /\ decision # NoDecision
         /\ decision.hadContext /\ ~decision.isSource
         /\ "maxCascadeDepth" \in DOMAIN decision.options
         /\ OptAllowCascading(decision.options) )
       => decision.result = ~(decision.ordinal - 1 >= decision.options.maxCascadeDepth)

C19_Witness ==
    /\ decision # NoDecision
    /\ decision.options = [allowCascading |-> TRUE, maxCascadeDepth |-> 0]
    /\ decision.hadContext /\ ~decision.isSource
    /\ decision.ordinal = 1
    /\ decision.result

\* C20: initializeAuditContext leaves the registry holding a context for the
\* request with no source set, and a markCascadingOperation issued on a
\* request that has its id but no mutation observed yet is recorded in that
\* context's operationStack
C20_InitializeAllocates ==
    [][ \A r \in Reqs :
          /\ Initialize(r) =>
                /\ HasContext(r)'
                /\ Source(r)' = NoMut
          /\ \A m \in Muts :
                ( /\ auditRequestId[r] # NoId
                  /\ first[r] = NoMut /\ marks[r] = 0
                  /\ MarkCascading(r, m) )
                => /\ HasContext(r)'
                   /\ contexts'[auditRequestId[r]].operationStack
                        = <<StackTag(m[1], m[2])>> ]_vars

\* the request has its id and nothing else: no context, although initialized
C20_Witness ==
    /\ auditRequestId["reqA"] = generateRequestId(1)
    /\ idCounter = 1
    /\ first["reqA"] = NoMut /\ marks["reqA"] = 0
    /\ ~HasContext("reqA")
    /\ contexts = <<>>

\* C25: in every state of a request's context, isDirectOperation is true
\* exactly when operationStack is empty
C25_DirectIffEmptyStack ==
    \A r \in Reqs :
        HasContext(r) =>
            LET context == contexts[auditRequestId[r]]
            IN context.isDirectOperation <=> (context.operationStack = <<>>)

\* a context marked direct again after one cascading mutation
C25_Witness ==
    /\ HasContext("reqA")
    /\ marks["reqA"] = 1
    /\ contexts[auditRequestId["reqA"]].isDirectOperation
    /\ contexts[auditRequestId["reqA"]].operationStack = <<StackTag("clients", "c1")>>
    /\ Source("reqA") = <<"contracts", "c1">>

(***************************************************************************)
(* Properties of two interleaved requests (SpecIso)                        *)
(***************************************************************************)
\* the context a registry holds for request r, if any
CtxOf(ctxs, r) ==
    IF auditRequestId[r] # NoId /\ auditRequestId[r] \in DOMAIN ctxs
    THEN <<ctxs[auditRequestId[r]]>>
    ELSE <<>>

\* C16: under every interleaving of two requests' operations, the context the
\* shared registry holds for a request is the one it holds when the request
\* runs alone, and so is every shouldLog result
C16_Independent ==
    /\ \A r \in IsoReqs :
          /\ CtxOf(contexts, r) = CtxOf(solo[r], r)
          /\ \A m \in Muts, o \in Options :
                 shouldLogAuditOperation(auditRequestId[r], contexts, m[1], m[2], o)
                   = shouldLogAuditOperation(auditRequestId[r], solo[r], m[1], m[2], o)
    /\ decision # NoDecision => decision.result = decision.alone

\* reqB is refused a mutation that reqA, whose context differs, would log
C16_Witness ==
    /\ decision # NoDecision
    /\ decision.req = "reqB"
    /\ ~decision.result /\ ~decision.alone
    /\ HasContext("reqA") /\ HasContext("reqB")
    /\ Source("reqA") = <<decision.collection, decision.documentId>>
    /\ Source("reqB") # Source("reqA")
    /\ contexts[auditRequestId["reqA"]].operationStack = <<>>
    /\ contexts[auditRequestId["reqB"]].operationStack # <<>>

(***************************************************************************)
(* Properties of the tracker under fixed options (SpecFixed)               *)
(***************************************************************************)
\* C26: in every step that keeps a request's context, the operationStack is
\* extended, never shortened; and under the fixed options, if the decision
\* was false for some mutation other than the recorded source before the
\* step, it is false for every mutation other than the recorded source after it
C26_RejectionIsStable ==
    [][ \A r \in Reqs :
          (HasContext(r) /\ HasContext(r)') =>
              LET stack == contexts[auditRequestId[r]].operationStack
                  stackAfter == contexts'[auditRequestId[r]].operationStack
              IN /\ Len(stackAfter) >= Len(stack)
                 /\ SubSeq(stackAfter, 1, Len(stack)) = stack
                 /\ (\E m \in Muts \ {Source(r)} : ~WouldLog(r, m, pluginOptions))
                    => \A n \in Muts \ {Source(r)'} : ~WouldLog(r, n, pluginOptions)' ]_vars

\* a rejection under maxCascadeDepth = 1, the source overwritten and a
\* second cascading mutation marked since
C26_Witness ==
    /\ pluginOptions = [allowCascading |-> TRUE, maxCascadeDepth |-> 1]
    /\ decision # NoDecision
    /\ decision.hadContext /\ ~decision.isSource /\ ~decision.result
    /\ decision.ordinal = 2
    /\ HasContext("reqA")
    /\ Source("reqA") # first["reqA"]
    /\ Len(contexts[auditRequestId["reqA"]].operationStack) = 2

(***************************************************************************)
(* Properties of the hooks (SpecHooks)                                     *)
(***************************************************************************)
\* the (collection, documentId) pairs of the audit records request r caused,
\* created or still being created
Logged(r) ==
    { <<rec.collection, rec.documentId>> : rec \in { x \in auditLogs \cup inflight : x.req = r } }

TargetMuts == { <<t[1], JsString(t[2])>> : t \in HookTargets }

C5_CascadeLimit ==
    (pluginOptions # <<>> /\ pluginOptions.allowCascading
       /\ pluginOptions.maxCascadeDepth >= 1) =>
        \A r \in HookReqs :
            Cardinality(Logged(r) \ {first[r]}) <= pluginOptions.maxCascadeDepth

\* the same request logs three documents under maxCascadeDepth = 1
C5_Witness ==
    /\ pluginOptions = [allowCascading |-> TRUE, maxCascadeDepth |-> 1]
    /\ Cardinality({ <<rec.collection, rec.documentId>> : rec \in auditLogs }) = 3
    /\ contexts[auditRequestId["reqA"]].operationStack = <<>>

\* C13: every audit record with action 'update', created or being created,
\* carries a change-set that is an object with at least one field; so an
\* update without a meaningful change has no record
C13_UpdateRecordsNonEmpty ==
    \A rec \in auditLogs \cup inflight :
        rec.action = "update" =>
            /\ rec.changes # Null
            /\ rec.changes.k = "object"
            /\ Keys(rec.changes) # <<>>

\* two updates were handled and both passed the cascade decision, the one
\* that changed name has its record, the one that changed nothing has none
C13_Witness ==
    /\ pluginOptions # <<>> /\ pluginOptions.allowCascading
    /\ hookCalls = 2
    /\ inflight = {}
    /\ auditLogs =
         { AuditRecord("reqA", "contracts", "update", "c1",
                       Obj(<< <<"name", Obj(<< <<"old", John>>, <<"new", Jane>> >>)>> >>)) }
    /\ IsSource("reqA", <<"clients", "c1">>)
    /\ marks["reqA"] = 0

\* C14: no failure while persisting the audit record makes a mutation hook
\* fail: no request is ever in the state where one of its hooks rejected
C14_HookNeverFails == \A r \in HookReqs : reqStatus[r] # "failed"

\* C15: once a request is over (finished, or aborted by a failed hook), the
\* registry holds no context for it
C15_ContextRemovedAtEnd ==
    \A r \in HookReqs :
        reqStatus[r] \in {"ended", "failed"} => ~HasContext(r)

\* a request that logged one mutation and skipped a cascading one has ended
\* and its context is still registered
C15_Witness ==
    /\ reqStatus["reqA"] = "ended"
    /\ HasContext("reqA")
    /\ contexts[auditRequestId["reqA"]].operationStack # <<>>
    /\ auditLogs # {}
    /\ inflight = {}

\* C18: while a request has a context, its recorded source is the first
\* mutation the hooks handled for the request (no later mutation on another
\* document is recorded as direct), whatever allowCascading is
C18_SourceIsFirst ==
    \A r \in HookReqs : HasContext(r) => Source(r) = first[r]

\* under allowCascading a second document was handled and recorded as the
\* source: nothing was ever recorded as cascading
C18_Witness ==
    /\ pluginOptions = [allowCascading |-> TRUE, maxCascadeDepth |-> 2]
    /\ hookCalls = 2
    /\ first["reqA"] = <<"contracts", "c1">>
    /\ Source("reqA") = <<"clients", "c1">>
    /\ contexts[auditRequestId["reqA"]].operationStack = <<>>
    /\ contexts[auditRequestId["reqA"]].isDirectOperation

\* C27: with allowCascading = false and the hooks of one request interleaved
\* at their awaits, the audit records of the request (created or being
\* created) are for one (collection, documentId) only, the recorded source;
\* the step of a hook that decides also marks (a hook that issues a record
\* leaves its mutation as the recorded source), and no other step touches
\* the registry
C27_DecideAndMarkAtomic ==
    /\ [] ( (pluginOptions # <<>> /\ ~pluginOptions.allowCascading) =>
              \A r \in HookReqs :
                  /\ Cardinality(Logged(r)) <= 1
                  /\ Logged(r) # {} => (HasContext(r) /\ Logged(r) = {Source(r)}) )
    /\ [][ /\ hookCalls' = hookCalls => contexts' = contexts
           /\ hookCalls' # hookCalls =>
                 \A r \in HookReqs :
                     /\ HasContext(r)'
                     /\ \A rec \in inflight' \ inflight :
                           rec.req = r => Source(r)' = <<rec.collection, rec.documentId>>
         ]_vars

\* the first hook's record is still being created while a second hook of the
\* request has run and was marked cascading
C27_Witness ==
    /\ pluginOptions = [allowCascading |-> FALSE, maxCascadeDepth |-> 0]
    /\ hookCalls = 2
    /\ auditLogs = {}
    /\ { <<rec.collection, rec.action, rec.documentId>> : rec \in inflight }
         = { <<"contracts", "create", "c1">> }
    /\ contexts[auditRequestId["reqA"]].operationStack = <<"clients:c1">>

\* C28: with allowCascading = false, a request that had an update hook with a
\* meaningful change, whose creates have all completed and none failed, has
\* at least one audit record (an earlier update without a meaningful change
\* does not take the request's one direct slot)
C28_ChangeIsLogged ==
    (pluginOptions # <<>> /\ ~pluginOptions.allowCascading) =>
        \A r \in HookReqs :
            ( /\ hadChange[r]
              /\ reqStatus[r] # "failed"
              /\ \A rec \in inflight : rec.req # r )
            => \E rec \in auditLogs : rec.req = r

\* an update of c1 without a change, then an update of c2 with one: the
\* request ends without any audit record
C28_Witness ==
    /\ pluginOptions = [allowCascading |-> FALSE, maxCascadeDepth |-> 0]
    /\ hookCalls = 2
    /\ hadChange["reqA"]
    /\ reqStatus["reqA"] = "ended"
    /\ Source("reqA") = <<"contracts", "c1">>
    /\ contexts[auditRequestId["reqA"]].operationStack = <<"contracts:c2">>
    /\ auditLogs = {} /\ inflight = {}

(***************************************************************************)
(* Properties of formatChanges (SpecFmt)                                   *)
(***************************************************************************)
IsUpdate == Done /\ Truthy(fOld)
EffExclude == OptExcludeFields(fOptions)
EffDepth == OptFormatterDepth(fOptions)
Mco == OptMeaningfulChangesOnly(fOptions)
TopKeys == KeySet(fNew) \cup KeySet(fOld)
IsScalar(v) == v.k \in {"string", "number", "boolean"}
IsNested == fShape # <<>> /\ fShape.kind = "nested"

\* C6: formatChanges(X, X, config) is null, for every document X and every config
C6_Idempotence == (Done /\ fNew = fOld) => fResult = Null

C6_Witness ==
    /\ Done /\ IsNested /\ fNew = fOld
    /\ Len(fShape.chain) = 3
    /\ fShape.new = Populated(User1, John)
    /\ fOptions # <<>> /\ ~fOptions.meaningfulChangesOnly /\ fOptions.maxDepth = 1
    /\ fResult = Null

\* one side the identifier string I, the other a keyed map whose id is I
Collapsed(a, b) ==
    \/ a.k = "string" /\ b.k = "object" /\ Get(b, "id") = a
    \/ b.k = "string" /\ a.k = "object" /\ Get(a, "id") = b

\* C7: a field that only went from an identifier string to the populated map
\* with that id (or back) is no field of the change-set; when that is the only
\* difference of a nested value under meaningfulChangesOnly, the change-set is null
C7_RelationshipCollapse ==
    IsUpdate =>
        /\ \A key \in TopKeys :
              Collapsed(Get(fNew, key), Get(fOld, key)) => ~HasKey(fResult, key)
        /\ (IsNested /\ Mco /\ Collapsed(fShape.new, fShape.old)) => fResult = Null

C7_Witness ==
    /\ IsUpdate /\ IsNested
    /\ fShape.chain = <<"profile">>
    /\ fShape.old = User1
    /\ fShape.new = Populated(User1, Jane)
    /\ fOptions # <<>> /\ fOptions.excludeFields = {}
    /\ fResult = Null

\* a key named `field` occurs somewhere inside v
RECURSIVE Mentions(_, _)
Mentions(v, field) ==
    CASE v.k = "object" ->
            \/ field \in KeySet(v)
            \/ \E i \in 1..Len(v.e) : Mentions(v.e[i][2], field)
      [] v.k = "array" -> \E i \in 1..Len(v.e) : Mentions(v.e[i], field)
      [] OTHER -> FALSE

\* a and b hold different scalars for a key named `field`, at the same place
RECURSIVE DiffersAt(_, _, _)
DiffersAt(a, b, field) ==
    /\ a.k = "object" /\ b.k = "object"
    /\ \/ /\ IsScalar(Get(a, field)) /\ IsScalar(Get(b, field))
          /\ Get(a, field) # Get(b, field)
       \/ \E key \in KeySet(a) \cap KeySet(b) : DiffersAt(Get(a, key), Get(b, key), field)

\* C8: a field of excludeFields that differs between before and after, at the
\* top level or nested, occurs nowhere in the change-set
C8_ExclusionComplete ==
    IsUpdate =>
        \A field \in EffExclude :
            DiffersAt(fNew, fOld, field) => ~Mentions(fResult, field)

\* C9: a changed value nested deeper than maxDepth is still reported, the new
\* side being the opaque replacement of the subtree (here: of the whole chain)
C9_DepthCutoffReported ==
    ( /\ Done /\ IsNested /\ Mco
      /\ Len(fShape.chain) - 1 > EffDepth
      /\ \A i \in 1..Len(fShape.chain) : fShape.chain[i] \notin EffExclude
      /\ IsScalar(fShape.new) /\ IsScalar(fShape.old)
      /\ fShape.new # fShape.old
      /\ ~isRelationshipField("profile", fShape.new)
      /\ ~isRelationshipField("profile", fShape.old) )
    => /\ fResult # Null
       /\ Get(fResult, fShape.chain[1])
            = Obj(<< <<"old", Get(fOld, fShape.chain[1])>>,
                     <<"new", Get(fNew, fShape.chain[1])>> >>)

\* C10: a top-level field outside excludeFields whose before and after values
\* are different non-null scalars is recorded as exactly {old: before, new: after}
C10_ScalarChange ==
    IsUpdate =>
        \A key \in TopKeys \ EffExclude :
            LET new == Get(fNew, key)
                old == Get(fOld, key)
            IN (IsScalar(new) /\ IsScalar(old) /\ new # old)
                  => Get(fResult, key) = Obj(<< <<"old", old>>, <<"new", new>> >>)

C10_Witness ==
    /\ IsUpdate
    /\ fOld = Obj(<< <<"name", John>>, <<"hash", John>> >>)
    /\ fNew = Obj(<< <<"name", Jane>>, <<"hash", Jane>> >>)
    /\ fOptions # <<>> /\ fOptions.excludeFields = {"hash"}
    /\ fResult = Obj(<< <<"name", Obj(<< <<"old", John>>, <<"new", Jane>> >>)>> >>)

\* C11: when the before snapshot is absent (undefined or null) formatChanges
\* returns the after snapshot itself, for every config
C11_CreateVerbatim == (Done /\ IsNullish(fOld)) => fResult = fNew

C11_Witness ==
    /\ Done /\ fOld = Undef
    /\ fNew = Obj(<< <<"name", John>>, <<"hash", Jane>> >>)
    /\ fOptions # <<>> /\ fOptions.excludeFields = {"hash"}
    /\ ~fOptions.meaningfulChangesOnly
    /\ fResult = fNew

\* C21: a top-level field outside excludeFields whose value went from a
\* non-null value to null is a field of the (non-null) change-set, recorded
\* with new = null
C21_NullRecorded ==
    IsUpdate =>
        \A key \in TopKeys \ EffExclude :
            LET new == Get(fNew, key)
                old == Get(fOld, key)
            IN (new = Null /\ ~IsNullish(old))
                  => /\ fResult # Null
                     /\ HasKey(fResult, key)
                     /\ Get(Get(fResult, key), "new") = Null

\* a name set to null under the default options: nothing is reported
C21_Witness ==
    /\ IsUpdate /\ IsNested
    /\ fShape.chain = <<"profile">>
    /\ fShape.old = John /\ fShape.new = Null
    /\ fOptions = <<>>
    /\ fResult = Null

\* the identifiers carried by the elements of a sequence, as a set
IdSet(arr) == { IdOf(arr.e[i]) : i \in 1..Len(arr.e) }

\* C22: for a top-level field holding two sequences of equal length, the
\* differ reports no change only if every element on both sides is
\* reference-shaped and both sides carry the same set of identifiers, or all
\* paired elements are equal; otherwise the whole new sequence is the replacement
C22_SequenceDiff ==
    ( /\ Done /\ IsNested /\ Mco
      /\ fShape.chain = <<"profile">> /\ "profile" \notin EffExclude
      /\ IsArray(fShape.new) /\ IsArray(fShape.old)
      /\ Len(fShape.new.e) = Len(fShape.old.e) )
    => LET new == fShape.new
           old == fShape.old
           allRefs == /\ \A i \in 1..Len(new.e) : IsRelItem(new.e[i])
                      /\ \A i \in 1..Len(old.e) : IsRelItem(old.e[i])
           pairsEqual == \A i \in 1..Len(new.e) : new.e[i] = old.e[i]
       IN ~( (allRefs /\ IdSet(new) = IdSet(old)) \/ pairsEqual )
             => fResult = Obj(<< <<"profile", ChangeRecord(old, new)>> >>)

\* [0] becoming [1] under the default options: nothing is reported
C22_Witness ==
    /\ Done /\ IsNested
    /\ fShape.chain = <<"profile">>
    /\ fShape.old = Arr(<<Num(0)>>) /\ fShape.new = Arr(<<Num(1)>>)
    /\ fOptions = <<>>
    /\ fResult = Null

\* C23: a reference-shaped field of a keyed map (here: the one field of the
\* map under "profile"), outside excludeFields and no sequence, is recorded
\* as {old: oldId, new: newId} exactly when the identifier of the old value
\* differs from that of the new value, a missing identifier included
C23_ReferenceChange ==
    ( /\ Done /\ IsNested /\ Mco
      /\ Len(fShape.chain) = 2
      /\ \A i \in 1..2 : fShape.chain[i] \notin EffExclude
      /\ ~IsArray(fShape.new) /\ ~IsArray(fShape.old)
      /\ \/ isRelationshipField(fShape.chain[2], fShape.new)
         \/ isRelationshipField(fShape.chain[2], fShape.old) )
    => LET newId == IdOf(fShape.new)
           oldId == IdOf(fShape.old)
           inner == Obj(<< <<fShape.chain[2],
                            Obj(<< <<"old", oldId>>, <<"new", newId>> >>)>> >>)
       IN IF newId # oldId
          THEN fResult = Obj(<< <<"profile",
                                  ChangeRecord(Get(fOld, "profile"), inner)>> >>)
          ELSE fResult = Null

\* a relationship cleared (set to null) under the default options: nothing
\* is reported
C23_Witness ==
    /\ Done /\ IsNested
    /\ fShape.chain = <<"profile", "profile">>
    /\ fShape.old = User1 /\ fShape.new = Null
    /\ fOptions = <<>>
    /\ fResult = Null

\* C24: in a non-null change-set returned for an existing before snapshot,
\* no field is recorded with old and new equal under deepEqual
C24_NoEqualPair ==
    (IsUpdate /\ fResult # Null) =>
        \A key \in KeySet(fResult) :
            LET rec == Get(fResult, key)
            IN /\ KeySet(rec) = {"old", "new"}
               /\ ~deepEqual(Get(rec, "old"), Get(rec, "new"), 0, EffDepth)

\* of two fields one changed: only that one is in the change-set
C24_Witness ==
    /\ IsUpdate
    /\ fOld = Obj(<< <<"name", John>>, <<"hash", John>> >>)
    /\ fNew = Obj(<< <<"name", Jane>>, <<"hash", John>> >>)
    /\ fOptions # <<>> /\ fOptions.excludeFields = {} /\ fOptions.meaningfulChangesOnly
    /\ fResult = Obj(<< <<"name", ChangeRecord(John, Jane)>> >>)

\* what formatChanges returns for the same snapshots, excludeFields and
\* maxDepth with meaningfulChangesOnly = false
SimpleResult ==
    formatChanges(fNew, fOld, [excludeFields |-> EffExclude,
                               meaningfulChangesOnly |-> FALSE,
                               maxDepth |-> EffDepth])

\* C29: every top-level field reported with meaningfulChangesOnly = true is
\* reported with meaningfulChangesOnly = false under the same excludeFields
\* and maxDepth, with the same old value, the raw previous value
C29_MeaningfulSubset ==
    (IsUpdate /\ Mco /\ fResult # Null) =>
        /\ SimpleResult # Null
        /\ \A key \in KeySet(fResult) :
              /\ HasKey(SimpleResult, key)
              /\ Get(Get(fResult, key), "old") = Get(fOld, key)
              /\ Get(Get(SimpleResult, key), "old") = Get(fOld, key)

\* a nested name changed: the old side is the whole previous map in both
\* results
C29_Witness ==
    /\ IsUpdate /\ IsNested /\ Mco
    /\ fShape.chain = <<"profile", "profile">>
    /\ fShape.old = John /\ fShape.new = Jane
    /\ fOptions # <<>> /\ fOptions.excludeFields = {} /\ fOptions.maxDepth = 1
    /\ KeySet(fResult) = {"profile"}
    /\ KeySet(SimpleResult) = {"profile"}
    /\ Get(Get(fResult, "profile"), "old") = Wrap(<<"profile">>, John)

\* what formatChanges returns under the same options with the two snapshots
\* exchanged
ReverseResult == formatChanges(fOld, fNew, fOptions)

\* the top-level fields a result reports
Reported(result) == IF result = Null THEN {} ELSE KeySet(result)

\* C30: for two documents and any config, formatChanges is null in one
\* direction exactly when it is null in the other, and both directions report
\* the same top-level fields
C30_Symmetric ==
    IsUpdate =>
        /\ (fResult = Null) <=> (ReverseResult = Null)
        /\ Reported(fResult) = Reported(ReverseResult)

\* a name set to null is not reported; null set to a name is
C30_Witness ==
    /\ IsUpdate /\ IsNested
    /\ fShape.chain = <<"profile">>
    /\ fShape.old = Jane /\ fShape.new = Null
    /\ fOptions = <<>>
    /\ fResult = Null
    /\ ReverseResult = Obj(<< <<"profile", ChangeRecord(Null, Jane)>> >>)

(***************************************************************************)
(* Properties of shouldLogChanges (SpecLog)                                *)
(***************************************************************************)
Validated == logOk # Pending

\* C12: shouldLogChanges is true exactly when the change-set is non-null and
\* has at least minChanges fields; with minChanges not given it is false
\* exactly when the change-set is null or has no field
C12_ShouldLogChanges ==
    Validated =>
        /\ logOk = Bool( /\ fResult # Null
                         /\ Cardinality(KeySet(fResult)) >= MinChanges(minArg) )
        /\ minArg = Undef =>
              (logOk = Bool(FALSE) <=> (fResult = Null \/ fResult = Obj(<<>>)))

\* a change-set of one field is refused under minChanges = 2
C12_Witness ==
    /\ Validated
    /\ minArg = Num(2)
    /\ fResult = Obj(<< <<"name", Obj(<< <<"old", John>>, <<"new", Jane>> >>)>> >>)
    /\ logOk = Bool(FALSE)

====
